---- MODULE Spec2Model ----
(***************************************************************************)
(* Model of minesweeper.py: the Minesweeper board (the neighbour-count     *)
(* oracle), the Sentence constraint and the MinesweeperAI knowledge base   *)
(* with its saturation loop (update_knowledge) and move queries.           *)
(***************************************************************************)
EXTENDS Integers, Sequences, FiniteSets, TLC

\* Board dimensions (constructor parameters height, width), the largest number
\* of mines a game is built with, the largest count fed to add_knowledge, and
\* the cap on the number of add_knowledge calls.
Height == 2
Width == 3
MaxMines == 2
MaxCount == 3
MaxCalls == 2

\* The cap on the number of add_knowledge calls in the longer runs (DeepSpec).
MaxDeepCalls == 3

\* MINES, the local constant of make_random_move
MINES == 8

VARIABLES
    board,        \* Minesweeper.mines: the cells holding a mine
    moves_made,   \* MinesweeperAI.moves_made
    mines,        \* MinesweeperAI.mines
    safes,        \* MinesweeperAI.safes
    knowledge,    \* MinesweeperAI.knowledge: sequence of [cells, count]
    pc,           \* position: "idle", or inside update_knowledge: "mark" / "resolve"
    changed,      \* local variable `changed` of update_knowledge
    call,         \* the call in progress or last returned: [op, cell, count, adjusted]
    entry,        \* the AI's fields when that call was entered
    ret,          \* how the last call ended: [raised, value]
    calls         \* number of add_knowledge calls so far

vars == <<board, moves_made, mines, safes, knowledge, pc, changed, call, entry, ret, calls>>

Cells == (0 .. Height - 1) \X (0 .. Width - 1)

None == <<>>

\* a call ends by returning a value; no statement of the program raises
Return(v) == [raised |-> FALSE, value |-> v]

Range(s) == {s[k] : k \in 1 .. Len(s)}

----------------------------------------------------------------------------
\* Minesweeper (the game)

\* Minesweeper.nearby_mines
nearby_mines(b, cell) ==
    Cardinality({c \in (cell[1] - 1 .. cell[1] + 1) \X (cell[2] - 1 .. cell[2] + 1) :
                    /\ c # cell
                    /\ 0 <= c[1] /\ c[1] < Height /\ 0 <= c[2] /\ c[2] < Width
                    /\ c \in b})

\* Minesweeper.is_mine
is_mine(b, cell) == cell \in b

----------------------------------------------------------------------------
\* Sentence

\* Sentence.__init__
Sentence(cells, count) == [cells |-> cells, count |-> count]

\* known_mines taking its else branch whatever the sentence
known_mines_never(s) == {}

\* Sentence.known_mines
known_mines(s) ==
    IF Cardinality(s.cells) = s.count /\ s.count # 0 THEN s.cells ELSE {}

\* Sentence.known_safes
known_safes(s) ==
    IF s.count = 0 THEN s.cells ELSE {}

\* mark_mine without `self.count -= 1`
sentence_mark_mine_keep_count(s, cell) ==
    [cells |-> s.cells \ {cell}, count |-> s.count]

\* Sentence.mark_mine
sentence_mark_mine(s, cell) ==
    IF cell \in s.cells
    THEN [cells |-> s.cells \ {cell}, count |-> s.count - 1]
    ELSE s

\* Sentence.mark_safe
sentence_mark_safe(s, cell) ==
    IF cell \in s.cells
    THEN [cells |-> s.cells \ {cell}, count |-> s.count]
    ELSE s

----------------------------------------------------------------------------
\* MinesweeperAI: the fields as one record, and the methods as functions on it

AI == [moves_made |-> moves_made, mines |-> mines, safes |-> safes,
       knowledge |-> knowledge]

\* MinesweeperAI.__init__
NewAI == [moves_made |-> {}, mines |-> {}, safes |-> {}, knowledge |-> <<>>]

\* MinesweeperAI.mark_mine
mark_mine(ai, cell) ==
    [ai EXCEPT !.mines = @ \cup {cell},
               !.knowledge = [k \in 1 .. Len(@) |-> sentence_mark_mine(@[k], cell)]]

\* mark_safe without the loop over self.knowledge
mark_safe_no_propagate(ai, cell) ==
    [ai EXCEPT !.safes = @ \cup {cell}]

\* MinesweeperAI.mark_safe
mark_safe(ai, cell) ==
    [ai EXCEPT !.safes = @ \cup {cell},
               !.knowledge = [k \in 1 .. Len(@) |-> sentence_mark_safe(@[k], cell)]]

\* add_knowledge, the nested loops over the 3x3 block around cell: the
\* coordinates that reach each branch.
Block(cell) ==
    ((cell[1] - 1 .. cell[1] + 1) \X (cell[2] - 1 .. cell[2] + 1)) \ {cell}

InBounds(c) == 0 <= c[1] /\ c[1] < Height /\ 0 <= c[2] /\ c[2] < Width

\* cells that decrement count (line 201-203)
KnownMineNeighbors(ai, cell) ==
    {c \in Block(cell) : c \notin ai.safes /\ c \in ai.mines}

\* cells added to `neighbors` (lines 205-209)
NewNeighbors(ai, cell) ==
    {c \in Block(cell) : c \notin ai.safes /\ c \notin ai.mines /\ InBounds(c)}

\* adjusted_count (line 211); known_mines_count stays 0, its branch being
\* behind the `in self.mines` test of line 201.
AdjustedCount(ai, cell, count) ==
    (count - Cardinality(KnownMineNeighbors(ai, cell))) - 0

\* an ingestion that assigns {cell} to moves_made where line 187 adds to it
IngestForgetMoves(ai0, cell, count) ==
    LET ai1 == [ai0 EXCEPT !.moves_made = {cell}]
        ai2 == mark_safe(ai1, cell)
        neighbors == NewNeighbors(ai2, cell)
        adjusted_count == AdjustedCount(ai2, cell, count)
    IN  IF neighbors # {}
        THEN [ai2 EXCEPT !.knowledge = Append(@, Sentence(neighbors, adjusted_count))]
        ELSE ai2

\* add_knowledge up to the call of update_knowledge (lines 187-214)
Ingest(ai0, cell, count) ==
    LET ai1 == [ai0 EXCEPT !.moves_made = @ \cup {cell}]
        ai2 == mark_safe(ai1, cell)
        neighbors == NewNeighbors(ai2, cell)
        adjusted_count == AdjustedCount(ai2, cell, count)
    IN  IF neighbors # {}
        THEN [ai2 EXCEPT !.knowledge = Append(@, Sentence(neighbors, adjusted_count))]
        ELSE ai2

----------------------------------------------------------------------------
\* update_knowledge: one iteration of the while loop, in two halves

\* new_mines: lines 224, 227-228 and 231-232
NewMines(ai) == UNION {known_mines(s) : s \in Range(ai.knowledge)}

\* the collection of safes (lines 229, 234-235) finding none
NewSafesNone(ai) == {}

\* new_safes: lines 225, 227, 229 and 234-235
NewSafes(ai) == UNION {known_safes(s) : s \in Range(ai.knowledge)}

\* lines 237-240
RECURSIVE MarkNewMines(_, _)
MarkNewMines(ai, todo) ==
    IF todo = {} THEN ai
    ELSE LET mine == CHOOSE c \in todo : TRUE
         IN  MarkNewMines(IF mine \notin ai.mines THEN mark_mine(ai, mine) ELSE ai,
                          todo \ {mine})

\* lines 243-246
RECURSIVE MarkNewSafes(_, _)
MarkNewSafes(ai, todo) ==
    IF todo = {} THEN ai
    ELSE LET safe == CHOOSE c \in todo : TRUE
         IN  MarkNewSafes(IF safe \notin ai.safes THEN mark_safe(ai, safe) ELSE ai,
                          todo \ {safe})

\* update_knowledge without the filter of line 249
DropEmptyKeep(kn) == kn

\* line 249: the list comprehension keeps the sentences with cells, in order
RECURSIVE DropEmpty(_)
DropEmpty(kn) ==
    IF kn = <<>> THEN <<>>
    ELSE IF Head(kn).cells # {} THEN <<Head(kn)>> \o DropEmpty(Tail(kn))
         ELSE DropEmpty(Tail(kn))

\* lines 223-249: returns the AI and the value of `changed`
MarkPass(ai) ==
    LET new_mines == NewMines(ai)
        new_safes == NewSafes(ai)
        ai1 == MarkNewMines(ai, new_mines)
        ai2 == MarkNewSafes(ai1, new_safes)
    IN  [ai |-> [ai2 EXCEPT !.knowledge = DropEmpty(@)],
         changed |-> (new_mines \ ai.mines # {}) \/ (new_safes \ ai1.safes # {})]

\* self.knowledge[i + 1:] (line 253), i counted from 1 here
Later(kn, i) == SubSeq(kn, i + 1, Len(kn))

\* the tests of lines 254-256 without that of inferred_count (line 261)
ResolvableAnyCount(sentence1, sentence2) ==
    /\ sentence1 # sentence2
    /\ sentence2.cells \subseteq sentence1.cells
    /\ sentence2.cells # {}

\* lines 254-261: sentence2 resolves against sentence1
Resolvable(sentence1, sentence2) ==
    /\ sentence1 # sentence2
    /\ sentence2.cells \subseteq sentence1.cells
    /\ sentence2.cells # {}
    /\ sentence1.count - sentence2.count >= 0

\* lines 258-263
Inferred(sentence1, sentence2) ==
    Sentence(sentence1.cells \ sentence2.cells, sentence1.count - sentence2.count)

\* an append that leaves `changed` alone
FlagDropped(chg, appended) == chg

\* line 267 moved out of the tests around it: set on every pair
FlagAlways(chg, appended) == TRUE

\* line 267
Flag(chg, appended) == chg \/ appended

\* the inner loop (lines 253-267) over the slice taken when it starts
RECURSIVE ResolveInner(_, _, _, _)
ResolveInner(kn, sentence1, rest, chg) ==
    IF rest = <<>> THEN [knowledge |-> kn, changed |-> chg]
    ELSE LET sentence2 == Head(rest)
             add == /\ Resolvable(sentence1, sentence2)
                    /\ Inferred(sentence1, sentence2) \notin Range(kn)
         IN  ResolveInner(IF add THEN Append(kn, Inferred(sentence1, sentence2)) ELSE kn,
                          sentence1, Tail(rest), Flag(chg, add))

\* the outer loop (line 252): it iterates the list it appends to
RECURSIVE ResolveOuter(_, _, _)
ResolveOuter(kn, i, chg) ==
    IF i > Len(kn) THEN [knowledge |-> kn, changed |-> chg]
    ELSE LET r == ResolveInner(kn, kn[i], Later(kn, i), chg)
         IN  ResolveOuter(r.knowledge, i + 1, r.changed)

\* lines 252-267
ResolvePass(ai, chg) ==
    LET r == ResolveOuter(ai.knowledge, 1, chg)
    IN  [ai |-> [ai EXCEPT !.knowledge = r.knowledge], changed |-> r.changed]

\* update_knowledge as a function of the AI's fields: the fields on return, or
\* diverges when the loop comes back, with changed set, to a state it was in
\* at the head of an earlier iteration (it then repeats for ever).
RECURSIVE Saturate(_, _)
Saturate(ai, seen) ==
    IF ai \in seen THEN [ai |-> ai, diverges |-> TRUE]
    ELSE LET m == MarkPass(ai)
             r == ResolvePass(m.ai, m.changed)
         IN  IF r.changed THEN Saturate(r.ai, seen \cup {ai})
             ELSE [ai |-> r.ai, diverges |-> FALSE]

update_knowledge(ai) == Saturate(ai, {})

\* add_knowledge as a function of the AI's fields (lines 187-216)
AddKnowledge(ai, cell, count) == update_knowledge(Ingest(ai, cell, count))

----------------------------------------------------------------------------
\* The state machine

SetAI(ai) ==
    /\ moves_made' = ai.moves_made
    /\ mines' = ai.mines
    /\ safes' = ai.safes
    /\ knowledge' = ai.knowledge

NoCall == [op |-> "none", cell |-> None, count |-> 0, adjusted |-> 0]

InitAI ==
    /\ moves_made = {} /\ mines = {} /\ safes = {} /\ knowledge = <<>>
    /\ pc = "idle" /\ changed = FALSE
    /\ call = NoCall /\ entry = NewAI /\ ret = Return(None) /\ calls = 0

\* The AI fed by any caller: no game is consulted.
Init == board = {} /\ InitAI

\* Minesweeper.__init__: the layouts a game can be built with
Layouts == {b \in SUBSET Cells : Cardinality(b) <= MaxMines}

\* The AI playing a game with some mine layout.
PlayInit == board \in Layouts /\ InitAI

\* add_knowledge(cell, count): lines 187-214, then enters update_knowledge
add_knowledge(cell, count) ==
    /\ pc = "idle"
    /\ calls' = calls + 1
    /\ call' = [op |-> "add_knowledge", cell |-> cell, count |-> count,
                adjusted |-> AdjustedCount(mark_safe(AI, cell), cell, count)]
    /\ entry' = AI
    /\ SetAI(Ingest(AI, cell, count))
    /\ pc' = "mark"
    /\ changed' = TRUE
    /\ UNCHANGED <<board, ret>>

\* a caller that feeds any count
AddAny ==
    /\ calls < MaxCalls
    /\ \E cell \in Cells, count \in 0 .. MaxCount : add_knowledge(cell, count)

\* the same caller, allowed more calls
AddDeep ==
    /\ calls < MaxDeepCalls
    /\ \E cell \in Cells, count \in 0 .. MaxCount : add_knowledge(cell, count)

\* the coordinates one step outside the board
Margin == ((-1 .. Height) \X (-1 .. Width)) \ Cells

\* a caller that passes a cell outside the board
AddOutside ==
    /\ calls < MaxCalls
    /\ \E cell \in Margin, count \in 0 .. MaxCount : add_knowledge(cell, count)

\* a caller that plays the game: a cell that is no mine, with its true count
AddTrue ==
    /\ calls < MaxCalls
    /\ \E cell \in Cells :
        /\ ~is_mine(board, cell)
        /\ add_knowledge(cell, nearby_mines(board, cell))

\* update_knowledge called on its own
CallUpdate ==
    /\ pc = "idle"
    /\ call' = [NoCall EXCEPT !.op = "update_knowledge"]
    /\ entry' = AI
    /\ pc' = "mark"
    /\ changed' = TRUE
    /\ UNCHANGED <<board, moves_made, mines, safes, knowledge, ret, calls>>

\* while changed: lines 223-249
MarkStep ==
    /\ pc = "mark"
    /\ LET m == MarkPass(AI)
       IN  SetAI(m.ai) /\ changed' = m.changed
    /\ pc' = "resolve"
    /\ UNCHANGED <<board, call, entry, ret, calls>>

\* lines 252-267 and the loop test; on exit update_knowledge (and
\* add_knowledge, when it is the caller) returns None
ResolveStep ==
    /\ pc = "resolve"
    /\ LET r == ResolvePass(AI, changed)
       IN  /\ SetAI(r.ai)
           /\ IF r.changed
              THEN pc' = "mark" /\ changed' = TRUE /\ ret' = ret
              ELSE pc' = "idle" /\ changed' = FALSE /\ ret' = Return(None)
    /\ UNCHANGED <<board, call, entry, calls>>

\* the loop without the `not in self.moves_made` test
SafeMovesAll(ai) == ai.safes

\* make_safe_move, lines 283-285: the cells the loop can return
SafeMoves(ai) == {move \in ai.safes : move \notin ai.moves_made}

\* make_safe_move: the iteration order of a set is not fixed, so any cell
\* of safes that is not in moves_made can be the first one found
make_safe_move ==
    /\ pc = "idle"
    /\ call' = [NoCall EXCEPT !.op = "make_safe_move"]
    /\ entry' = AI
    /\ \/ \E move \in SafeMoves(AI) : ret' = Return(move)
       \/ SafeMoves(AI) = {} /\ ret' = Return(None)
    /\ UNCHANGED <<board, moves_made, mines, safes, knowledge, pc, changed, calls>>

----------------------------------------------------------------------------
\* make_random_move

\* a quotient n / d of two integers, d # 0, kept exact: the floats of two such
\* quotients of small integers compare as the quotients do
Quot(n, d) == IF d < 0 THEN <<-n, -d>> ELSE <<n, d>>

QLess(a, b) == a[1] * b[2] < b[1] * a[2]

\* max(x, y) (line 332)
QMax(a, b) == IF QLess(a, b) THEN b ELSE a

\* spaces_left (line 302)
SpacesLeft(ai) ==
    (Height * Width) - (Cardinality(ai.mines) + Cardinality(ai.moves_made))

\* basic_prob (lines 300, 306)
BasicProb(ai) == Quot(MINES - Cardinality(ai.mines), SpacesLeft(ai))

\* the keys of `moves` (lines 308-311)
MoveKeys(ai) == {c \in Cells : c \notin ai.mines /\ c \notin ai.moves_made}

\* moves[cell] after the loop over the sentences (lines 323-332)
RECURSIVE MoveProb(_, _, _)
MoveProb(kn, cell, prob) ==
    IF kn = <<>> THEN prob
    ELSE LET sentence == Head(kn)
             num_cells == Cardinality(sentence.cells)
         IN  IF num_cells = 0 \/ cell \notin sentence.cells
             THEN MoveProb(Tail(kn), cell, prob)
             ELSE MoveProb(Tail(kn), cell, QMax(prob, Quot(sentence.count, num_cells)))

\* best_moves (lines 334-335)
BestMoves(ai) ==
    LET P(c) == MoveProb(ai.knowledge, c, BasicProb(ai))
    IN  {c \in MoveKeys(ai) : \A o \in MoveKeys(ai) : ~QLess(P(o), P(c))}

\* the cells make_random_move can return; none when it returns None
RandomMoves(ai) ==
    IF SpacesLeft(ai) = 0 THEN {}
    ELSE IF MoveKeys(ai) = {} THEN {}
    ELSE IF ai.knowledge = <<>> THEN MoveKeys(ai)
    ELSE BestMoves(ai)

\* make_random_move: random.choice can return any element of its list
make_random_move ==
    /\ pc = "idle"
    /\ call' = [NoCall EXCEPT !.op = "make_random_move"]
    /\ entry' = AI
    /\ \/ \E move \in RandomMoves(AI) : ret' = Return(move)
       \/ RandomMoves(AI) = {} /\ ret' = Return(None)
    /\ UNCHANGED <<board, moves_made, mines, safes, knowledge, pc, changed, calls>>

Queries == make_safe_move \/ make_random_move

Next == AddAny \/ CallUpdate \/ MarkStep \/ ResolveStep \/ make_safe_move

PlayNext == AddTrue \/ CallUpdate \/ MarkStep \/ ResolveStep \/ make_safe_move

Spec == Init /\ [][Next]_vars

PlaySpec == PlayInit /\ [][PlayNext]_vars

\* update_knowledge is straight-line code in one thread: once entered, each
\* half of an iteration runs.
FairSpec == Spec /\ WF_vars(MarkStep) /\ WF_vars(ResolveStep)

FairPlaySpec == PlaySpec /\ WF_vars(MarkStep) /\ WF_vars(ResolveStep)

\* The AI playing a game and asked for moves.
PlayMoveNext == AddTrue \/ MarkStep \/ ResolveStep \/ Queries

PlayMoveSpec == PlayInit /\ [][PlayMoveNext]_vars

\* The AI fed any counts over more calls, and asked for moves.
DeepNext == AddDeep \/ MarkStep \/ ResolveStep \/ Queries

DeepSpec == Init /\ [][DeepNext]_vars

\* The AI fed cells inside and outside the board.
WildNext == AddAny \/ AddOutside \/ MarkStep \/ ResolveStep

WildSpec == Init /\ [][WildNext]_vars

----------------------------------------------------------------------------
\* Properties

Returned == pc = "idle"

AfterAdd == pc = "idle" /\ call.op = "add_knowledge"

\* C1: in a game with a fixed mine layout, fed only true counts of cells that
\* are no mine, whenever add_knowledge has returned every cell of safes is
\* no mine of the layout and every cell of mines is one.
C1_Sound ==
    Returned => (\A c \in safes : ~is_mine(board, c)) /\ (\A c \in mines : is_mine(board, c))

\* a state where the AI has deduced a mine and a safe cell it has not played
C1_Witness ==
    AfterAdd /\ mines # {} /\ safes \ moves_made # {}

\* C2: whenever add_knowledge has returned, for every two distinct sentences
\* A, B of knowledge, in whatever positions, with B.cells non-empty and a
\* subset of A.cells and A.count - B.count >= 0, the sentence
\* (A.cells - B.cells, A.count - B.count) is in knowledge.
C2_Closed ==
    Returned =>
        \A i, j \in 1 .. Len(knowledge) :
            LET A == knowledge[i]
                B == knowledge[j]
            IN  (/\ A # B
                 /\ B.cells # {}
                 /\ B.cells \subseteq A.cells
                 /\ A.count - B.count >= 0)
                => Sentence(A.cells \ B.cells, A.count - B.count) \in Range(knowledge)

\* C3: every entered update_knowledge leaves its while loop: the call returns.
C3_Terminates == (pc = "mark") ~> (pc = "idle")

\* C4: safes and mines have no cell in common, in every reachable state.
C4_Disjoint == safes \cap mines = {}

\* C5: every sentence held in knowledge has 0 <= count <= |cells|, in every
\* reachable state.
C5_CountBounds ==
    \A s \in Range(knowledge) : 0 <= s.count /\ s.count <= Cardinality(s.cells)

\* C6: whenever add_knowledge has returned, no sentence of knowledge contains
\* a cell that is in safes or in mines.
C6_NoResolvedCell ==
    Returned => \A s \in Range(knowledge) : s.cells \cap (safes \cup mines) = {}

\* a returned state with live sentences next to deduced mines
C6_Witness ==
    AfterAdd /\ knowledge # <<>> /\ mines # {} /\ safes # {}

\* the orders a list of n sentences can be in
Perms(n) == {p \in [1 .. n -> 1 .. n] : \A a, b \in 1 .. n : a # b => p[a] # p[b]}

Reordered(ai, p) == [ai EXCEPT !.knowledge = [k \in 1 .. Len(@) |-> @[p[k]]]]

SameDeductions(a, b) == a.safes = b.safes /\ a.mines = b.mines

\* C7: the order of the sentences in knowledge does not change what
\* update_knowledge deduces: entered with the same fields and the same
\* sentences in another order, it returns with the same safes and mines; and
\* observing the same two cells with their true counts in the other order
\* gives the same safes and mines.
C7_OrderIndependent ==
    /\ pc = "mark" =>
          \A p \in Perms(Len(knowledge)) :
              LET a == update_knowledge(AI)
                  b == update_knowledge(Reordered(AI, p))
              IN  (~a.diverges /\ ~b.diverges) => SameDeductions(a.ai, b.ai)
    /\ (AfterAdd /\ calls = 2 /\ Cardinality(moves_made) = 2) =>
          LET c2 == call.cell
              c1 == CHOOSE c \in moves_made : c # c2
              swapped == AddKnowledge(AddKnowledge(NewAI, c2, nearby_mines(board, c2)).ai,
                                      c1, nearby_mines(board, c1))
          IN  ~swapped.diverges => SameDeductions(AI, swapped.ai)

\* C8: an add_knowledge whose count is smaller than the number of neighbours
\* already in mines (adjusted count negative) ends by signalling an error, and
\* no sentence with a negative count is in knowledge.
C8_InconsistentIsError ==
    (AfterAdd /\ call.adjusted < 0) =>
        ret.raised /\ \A s \in Range(knowledge) : s.count >= 0

\* C9: update_knowledge called again right after update_knowledge has
\* returned leaves safes, mines, moves_made and the sentences as they were.
C9_FixedPoint ==
    (pc = "idle" /\ call.op = "update_knowledge") => AI = entry

\* a second update_knowledge has returned on a knowledge base that holds
\* sentences and deductions
C9_Witness ==
    pc = "idle" /\ call.op = "update_knowledge" /\ knowledge # <<>> /\ mines # {}

\* C10: make_safe_move returns a cell of safes that is not in moves_made when
\* there is one, None exactly when safes is a subset of moves_made, and
\* leaves safes, mines, moves_made and knowledge as they were.
C10_SafeMovePure ==
    call.op = "make_safe_move" =>
        /\ ~ret.raised
        /\ ret.value # None => ret.value \in safes /\ ret.value \notin moves_made
        /\ ret.value = None <=> safes \subseteq moves_made
        /\ AI = entry

\* make_safe_move has returned a cell while other safe cells were played
C10_Witness ==
    call.op = "make_safe_move" /\ ret.value # None /\ knowledge # <<>> /\ moves_made # {}

\* the candidates of a random move: the board cells that are neither a known
\* mine nor played
Candidates(ai) == {c \in Cells : c \notin ai.mines /\ c \notin ai.moves_made}

\* C11: every cell make_random_move returns is a board cell that is neither
\* in mines nor in moves_made; it returns None exactly when there is no such
\* cell; and with knowledge empty it can return every such cell.
C11_RandomMoveCandidates ==
    call.op = "make_random_move" =>
        /\ ~ret.raised
        /\ ret.value # None => ret.value \in Candidates(AI)
        /\ ret.value = None <=> Candidates(AI) = {}
        /\ knowledge = <<>> => RandomMoves(AI) = Candidates(AI)

\* the estimate of a candidate when the game holds total mines: the largest
\* of the baseline and of count / |cells| over the sentences containing it
Estimate(ai, total, c) ==
    LET base == Quot(total - Cardinality(ai.mines), Cardinality(Candidates(ai)))
        ratios == {Quot(s.count, Cardinality(s.cells)) :
                      s \in {x \in Range(ai.knowledge) : c \in x.cells}}
        all == {base} \cup ratios
    IN  CHOOSE q \in all : \A r \in all : ~QLess(q, r)

\* the candidates whose estimate is minimal
MinEstimate(ai, total) ==
    {c \in Candidates(ai) :
        \A o \in Candidates(ai) :
            ~QLess(Estimate(ai, total, o), Estimate(ai, total, c))}

\* C12: with knowledge non-empty, the cells make_random_move can return are
\* exactly the candidates of minimal estimate, the baseline of the estimate
\* being computed from the number of mines of the game being played.
C12_MinimumEstimate ==
    (call.op = "make_random_move" /\ knowledge # <<>>) =>
        RandomMoves(AI) = MinEstimate(AI, Cardinality(board))

\* C13: when add_knowledge(cell, 0) for a cell of the board none of whose
\* neighbours was in mines has returned, every neighbour of the cell on the
\* board is in safes, and the cell is in safes and in moves_made.
C13_ZeroCount ==
    (/\ AfterAdd
     /\ call.count = 0
     /\ InBounds(call.cell)
     /\ Block(call.cell) \cap entry.mines = {}) =>
        /\ \A c \in Block(call.cell) : InBounds(c) => c \in safes
        /\ call.cell \in safes
        /\ call.cell \in moves_made

\* a zero count has been added to an AI that held sentences, and it made
\* cells safe that were not safe before
C13_Witness ==
    /\ AfterAdd
    /\ call.count = 0
    /\ Block(call.cell) \cap entry.mines = {}
    /\ entry.knowledge # <<>>
    /\ (Block(call.cell) \cap Cells) \ entry.safes # {}
    /\ (Block(call.cell) \cap Cells) \subseteq safes

\* C14: add_knowledge with a cell outside the board signals an error and
\* leaves safes, mines, moves_made and knowledge as they were; no cell outside
\* the board is ever in safes or in moves_made.
C14_OutOfBoundsRejected ==
    /\ (AfterAdd /\ ~InBounds(call.cell)) => ret.raised /\ AI = entry
    /\ \A c \in safes \cup moves_made : InBounds(c)

\* C15: every step of the AI, the steps inside update_knowledge included,
\* leaves each of safes, mines and moves_made a superset of what it was.
C15_Monotone ==
    [][/\ safes \subseteq safes'
       /\ mines \subseteq mines'
       /\ moves_made \subseteq moves_made']_vars

\* update_knowledge is under way in a call made on an AI that already knew
\* mines and safes, and both sets have grown since the call began
C15_Witness ==
    /\ pc # "idle"
    /\ entry.mines # {} /\ entry.safes # {} /\ entry.moves_made # {}
    /\ entry.mines \subseteq mines /\ mines # entry.mines
    /\ entry.safes \subseteq safes /\ safes # entry.safes
    /\ entry.moves_made \subseteq moves_made /\ moves_made # entry.moves_made

\* the sentences the step has put behind those knowledge held before it
Appended == {knowledge'[k] : k \in Len(knowledge) + 1 .. Len(knowledge')}

\* C16: the resolution step of update_knowledge only appends to knowledge;
\* every sentence it appends has a count of 0 or more, and for sentences A
\* and B of knowledge with B.cells a subset of A.cells and A.count < B.count
\* it does not append the difference of A and B.
C16_NoNegativeInference ==
    [][pc = "resolve" =>
          /\ Len(knowledge') >= Len(knowledge)
          /\ SubSeq(knowledge', 1, Len(knowledge)) = knowledge
          /\ \A s \in Appended : s.count >= 0
          /\ \A A \in Range(knowledge), B \in Range(knowledge) :
                (B.cells \subseteq A.cells /\ A.count < B.count) =>
                    Inferred(A, B) \notin Appended]_vars

\* add_knowledge has returned, so the last resolution step ran on this
\* knowledge: it holds A before B with B.cells a non-empty proper subset of
\* A.cells and A.count < B.count
C16_Witness ==
    /\ AfterAdd
    /\ \E i \in 1 .. Len(knowledge), j \in 1 .. Len(knowledge) :
          /\ i < j
          /\ knowledge[j].cells # {}
          /\ knowledge[j].cells \subseteq knowledge[i].cells
          /\ knowledge[j].cells # knowledge[i].cells
          /\ knowledge[i].count < knowledge[j].count

\* C17: the step of add_knowledge(cell, count) that precedes saturation
\* appends the sentence whose cells are the neighbours of cell on the board
\* that are in neither safes nor mines and whose count is count minus the
\* number of neighbours of cell in mines; it appends nothing when there is no
\* such neighbour.
C17_IngestedSentence ==
    [][(pc = "idle" /\ call'.op = "add_knowledge") =>
          LET cell == call'.cell
              cells == {c \in Block(cell) : InBounds(c) /\ c \notin safes /\ c \notin mines}
              count == call'.count - Cardinality(Block(cell) \cap mines)
          IN  IF cells = {}
              THEN Len(knowledge') = Len(knowledge)
              ELSE /\ Len(knowledge') = Len(knowledge) + 1
                   /\ knowledge'[Len(knowledge')] = Sentence(cells, count)]_vars

\* C18: whenever add_knowledge has returned, no sentence of knowledge has
\* an empty set of cells.
C18_NoEmptySentence ==
    Returned => \A s \in Range(knowledge) : s.cells # {}

\* add_knowledge has returned with fewer sentences than it was called with:
\* sentences lost their last cell to new mines or safes and were dropped
C18_Witness ==
    /\ AfterAdd
    /\ Len(knowledge) < Len(entry.knowledge)
    /\ mines \cup safes # entry.mines \cup entry.safes

\* C19: in a game with a fixed mine layout, fed only true counts of cells
\* that are no mine, in any order and with repeats, every update_knowledge
\* that has been entered leaves its while loop.
C19_PlayTerminates == [](pc # "idle" => <>(pc = "idle"))

\* a call in a game has returned after resolution appended a sentence, so
\* after more than one iteration of the loop
C19_Witness ==
    /\ AfterAdd
    /\ board # {}
    /\ entry.knowledge # <<>>
    /\ Len(knowledge) > Len(entry.knowledge) + 1

\* C20: in a game with a fixed mine layout, fed only true counts of cells
\* that are no mine, whenever add_knowledge has returned every sentence of
\* knowledge has 1 <= count <= |cells| - 1, and so neither known mines nor
\* known safes.
C20_NoPendingDeduction ==
    Returned =>
        \A s \in Range(knowledge) :
            /\ 1 <= s.count
            /\ s.count <= Cardinality(s.cells) - 1
            /\ known_mines(s) = {}
            /\ known_safes(s) = {}

\* add_knowledge has returned in a game with mines, having deduced safe
\* cells, and several sentences stay in knowledge
C20_Witness ==
    /\ AfterAdd
    /\ board # {}
    /\ Len(knowledge) >= 2
    /\ safes \ moves_made # {}

====
